---- MODULE Spec2Model ----
(***************************************************************************)
(* ustl::memblock (memblock.h): a memory block that is unlinked, linked to *)
(* memory it does not own, or the owner of a block it allocated.           *)
(*                                                                         *)
(* Two memblock objects "a" and "b" live over one foreign region and a     *)
(* bounded heap.  Every member function is an operator from a world (the   *)
(* objects' fields plus the memory) to the world after the call; an action *)
(* applies one member function to one object.  The members defined in      *)
(* memblock.h are translated from it; memlink.h and memblock.cc are not    *)
(* part of the sources at hand, so the members they define follow the      *)
(* written specification of the component.                                 *)
(*                                                                         *)
(* Spec runs every member function on the one object "a", with blocks of   *)
(* up to MaxLen bytes; SpecPair runs them on "a" and "b" together, with    *)
(* blocks of up to MaxPair bytes.                                          *)
(***************************************************************************)
EXTENDS Integers, Sequences, FiniteSets, TLC

\* ------------------------------------------------------------------ bounds
\* Largest block length a caller asks for; also the tracked bytes per region.
MaxLen == 3
\* Largest block length asked for where two objects act on each other.
MaxPair == 1
\* Number of blocks the heap holds.
MaxBlocks == 3
\* Longest content of two objects that share memory.
MaxShare == 2

\* ------------------------------------------------------- program constants
c_PageSize_Twice == 64 + 64
c_PageSize == 64

\* ------------------------------------------------------------------ memory
Bufs == {"a", "b"}
\* Byte values: 1 .. MaxLen label the bytes of the caller's array, 0 is
\* another value.
Byte == 0 .. MaxLen
\* What fresh memory may hold: a byte no array holds, or one it does.
Garbage == {0, 1}
NULL == 0
\* The one region the component did not allocate (a caller's array).
Foreign == {1}
\* The blocks the allocator can hand out.
Heap == 2 .. (1 + MaxBlocks)
Regions == Foreign \cup Heap
Ptr == {NULL} \cup Regions
\* The bytes of a region the model tracks: index 1 is offset 0.
Cells == 1 .. MaxLen
Zeroes == [i \in Cells |-> 0]

VARIABLES
    m_Data,          \* memlink: pointer to the first byte, per object
    m_Size,          \* memlink: logical length, per object
    m_AllocatedSize, \* memblock: bytes allocated by this object
    alive,           \* whether the object is constructed and not yet destroyed
    mem,             \* the bytes of every region
    bsize,           \* the size the allocator gave each heap block
    bstate,          \* "free" or "live", per heap block
    faults,          \* the wrong calls of free seen so far
    op               \* the last call: its name, its object and how it ended

vars == <<m_Data, m_Size, m_AllocatedSize, alive, mem, bsize, bstate, faults, op>>

\* The world a member function acts on.  err: the call raised an allocation
\* error; ret: the iterator it returned; freed, allocd: the regions the call
\* released and obtained.
NoRet == [ptr |-> NULL, off |-> 0]

W ==
    [data |-> m_Data, size |-> m_Size, cap |-> m_AllocatedSize, mem |-> mem,
     bsize |-> bsize, bstate |-> bstate, faults |-> faults,
     err |-> FALSE, ret |-> NoRet, freed |-> {}, allocd |-> {}]

Min(x, y) == IF x <= y THEN x ELSE y

\* What the allocator does with one request: whether it succeeds, whether a
\* realloc moves the block, and the byte that fills fresh memory.
Outcomes == [ok : BOOLEAN, move : BOOLEAN, fill : {[i \in Cells |-> g] : g \in Garbage}]
NoAlloc == [ok |-> TRUE, move |-> FALSE, fill |-> Zeroes]

\* ---------------------------------------------------------------- allocator
\* A block the allocator can hand out: free, and no object still holds its
\* address from an earlier life of the block.
Fresh(w, r) == w.bstate[r] = "free" /\ \A x \in Bufs : w.data[x] # r
HasFresh(w) == \E r \in Heap : Fresh(w, r)
FreshBlock(w) ==
    CHOOSE r \in Heap : Fresh(w, r) /\ \A q \in Heap : q < r => ~Fresh(w, q)

\* The block r comes to life with n bytes: the first keep bytes are old, the
\* others are whatever the memory held.
Obtain(w, r, n, keep, old, fill) ==
    [w EXCEPT !.bstate[r] = "live", !.bsize[r] = n,
              !.mem[r] = [i \in Cells |-> IF i <= keep THEN old[i] ELSE fill[i]],
              !.ret = [ptr |-> r, off |-> 0], !.allocd = @ \cup {r}]

\* malloc(n): a fresh block of n bytes holding arbitrary bytes, or failure.
malloc(w, n, oc) ==
    IF ~oc.ok \/ ~HasFresh(w)
    THEN [w EXCEPT !.err = TRUE]
    ELSE Obtain(w, FreshBlock(w), n, 0, Zeroes, oc.fill)

\* free(p): free(NULL) does nothing; the bytes of a released block are lost.
\* Freeing memory the allocator did not hand out, or a block that is not
\* live, is a fault.
free(w, p) ==
    IF p = NULL THEN w
    ELSE IF p \in Foreign
    THEN [w EXCEPT !.faults = @ \cup {"free_foreign"}, !.freed = @ \cup {p}]
    ELSE IF w.bstate[p] # "live"
    THEN [w EXCEPT !.faults = @ \cup {"double_free"}, !.freed = @ \cup {p}]
    ELSE [w EXCEPT !.bstate[p] = "free", !.bsize[p] = 0, !.mem[p] = Zeroes,
                   !.freed = @ \cup {p}]

\* realloc(p, n): malloc(n) for p = NULL; otherwise the block grows in place,
\* or moves to a fresh block that keeps the first min(old size, n) bytes and
\* releases the old one.  On failure the old block is untouched.
realloc(w, p, n, oc) ==
    IF p = NULL THEN malloc(w, n, oc)
    ELSE IF ~oc.ok THEN [w EXCEPT !.err = TRUE]
    ELSE IF p \notin Heap \/ ~oc.move \/ ~HasFresh(w)
    THEN [w EXCEPT !.bsize = IF p \in Heap THEN [@ EXCEPT ![p] = n] ELSE @,
                   !.ret = [ptr |-> p, off |-> 0]]
    ELSE free(Obtain(w, FreshBlock(w), n, Min(w.bsize[p], n), w.mem[p], oc.fill), p)

\* ------------------------------------------------------------------ memlink
memlink_link(w, x, p, n) == [w EXCEPT !.data[x] = p, !.size[x] = n]

memlink_unlink(w, x) == [w EXCEPT !.data[x] = NULL, !.size[x] = 0]

memlink_resize(w, x, n) == [w EXCEPT !.size[x] = n]

memlink_swap(w, x, l) ==
    [w EXCEPT !.data = [@ EXCEPT ![x] = w.data[l], ![l] = w.data[x]],
              !.size = [@ EXCEPT ![x] = w.size[l], ![l] = w.size[x]]]

\* Overlap-safe move of the bytes [p, size - k) of x forward by k.
memlink_insert(w, x, p, k) ==
    IF w.data[x] = NULL THEN w
    ELSE [w EXCEPT !.mem[w.data[x]] = [i \in Cells |->
              IF i > p + k /\ i <= w.size[x] THEN w.mem[w.data[x]][i - k] ELSE @[i]]]

\* Overlap-safe move of the bytes [p + k, size) of x back by k; the length
\* shrinks by k.
memlink_erase(w, x, p, k) ==
    IF w.data[x] = NULL THEN w
    ELSE [w EXCEPT !.mem[w.data[x]] = [i \in Cells |->
              IF i > p /\ i <= w.size[x] - k THEN w.mem[w.data[x]][i + k] ELSE @[i]],
                   !.size[x] = @ - k]

\* Copies the first n bytes of src to the region dst.
copy_n(w, src, dst, n) ==
    [w EXCEPT !.mem[dst] = [i \in Cells |-> IF i <= n THEN src[i] ELSE @[i]]]

\* ----------------------------------------------------------------- memblock
\* Returns the number of bytes allocated.
capacity(w, x) == w.cap[x]

\* Returns true if the storage is linked, false if allocated.
is_linked_NoNot(w, x) == w.cap[x] # 0 /\ w.data[x] # NULL
is_linked(w, x) == w.cap[x] = 0 /\ w.data[x] # NULL

\* Unlinks object.
unlink_NoReset(w, x) == memlink_unlink(w, x)
unlink(w, x) == [memlink_unlink(w, x) EXCEPT !.cap[x] = 0]

\* Swaps the contents with l.
swap_LinkOnly(w, x, l) == memlink_swap(w, x, l)
swap(w, x, l) ==
    [memlink_swap(w, x, l) EXCEPT !.cap = [@ EXCEPT ![x] = w.cap[l], ![l] = w.cap[x]]]

\* Frees the storage if this object allocated it, then unlinks.
deallocate(w, x) == unlink(IF w.cap[x] > 0 THEN free(w, w.data[x]) ELSE w, x)

Align(n, grain) == ((n + grain - 1) \div grain) * grain

\* The end of reserve: w1 is the world after the allocator call.  When it
\* failed nothing changes; otherwise a linked object's bytes are copied into
\* the new block as far as it reaches, and the object takes the new block.
reserve_take(w, x, target, w1) ==
    IF w1.err THEN w1
    ELSE [(IF is_linked(w, x)
           THEN copy_n(w1, w.mem[w.data[x]], w1.ret.ptr, Min(w.size[x], target))
           ELSE w1)
          EXCEPT !.data[x] = w1.ret.ptr, !.cap[x] = target, !.ret = NoRet]

\* reserve, once it is known that the capacity must grow to target bytes.
reserve_grow(w, x, target, oc) ==
    reserve_take(w, x, target,
                 realloc(w, IF is_linked(w, x) THEN NULL ELSE w.data[x], target, oc))

\* Ensures capacity >= newSize; the length is not changed.
reserve_Always(w, x, newSize, bExact, oc) ==
    reserve_grow(w, x, IF bExact THEN newSize ELSE Align(newSize, c_PageSize), oc)
reserve(w, x, newSize, bExact, oc) ==
    IF newSize <= w.cap[x] THEN w
    ELSE reserve_grow(w, x, IF bExact THEN newSize ELSE Align(newSize, c_PageSize), oc)

\* The end of a call that first reserved: it goes on only when reserve did
\* not throw.
resize_set_Always(w1, x, newSize) == memlink_resize(w1, x, newSize)
resize_set(w1, x, newSize) == IF w1.err THEN w1 ELSE memlink_resize(w1, x, newSize)

\* resizes the block to newSize bytes, reallocating if necessary.
resize_ShrinkToFit(w, x, newSize, bExact, oc) ==
    [resize_set(reserve(w, x, newSize, bExact, oc), x, newSize)
     EXCEPT !.cap[x] = IF newSize < @ /\ newSize > 0 THEN newSize ELSE @]
resize(w, x, newSize, bExact, oc) ==
    resize_set(reserve(w, x, newSize, bExact, oc), x, newSize)

\* Resizes the block to 0.
clear(w, x) == resize(w, x, 0, TRUE, NoAlloc)

\* Relinks to the memory p, n, which this object does not come to own; the
\* storage held before is discarded, and freed if this object allocated it.
manage(w, x, p, n) == [memlink_link(deallocate(w, x), x, p, n) EXCEPT !.cap[x] = 0]

\* Assumes control over block pointed to by l.
manage_memlink_Emptied(w, x, l) == manage(w, x, w.data[l], 0)
manage_memlink(w, x, l) == manage(w, x, w.data[l], w.size[l])

\* The end of insert: w1 is the world after the resize.
insert_shift(w1, x, p, k) ==
    IF w1.err THEN w1
    ELSE [memlink_insert(w1, x, p, k) EXCEPT !.ret = [ptr |-> w1.data[x], off |-> p]]

\* Inserts k bytes at offset p: the length grows by k, the bytes from p on
\* move forward by k.  Returns the iterator to the gap.
insert(w, x, p, k, bExact, oc) ==
    insert_shift(resize(w, x, w.size[x] + k, bExact, oc), x, p, k)

\* Removes k bytes at offset p: the bytes behind them move back by k, the
\* length shrinks by k, the capacity stays.  Returns the iterator to p.
erase_NoShift(w, x, p, k) ==
    [memlink_resize(w, x, w.size[x] - k) EXCEPT !.ret = [ptr |-> w.data[x], off |-> p]]
erase(w, x, p, k) ==
    [memlink_erase(w, x, p, k) EXCEPT !.ret = [ptr |-> w.data[x], off |-> p]]

\* Whether the bytes p points to can be read.
Readable(w, p) == p \in Foreign \/ (p \in Heap /\ w.bstate[p] = "live")

\* The end of assign: w1 is the world after the resize; the n bytes at p are
\* copied in.  Bytes that can no longer be read yield anything.
assign_copy(w1, x, p, n, oc) ==
    IF w1.err \/ w1.data[x] = NULL THEN w1
    ELSE copy_n(w1, IF Readable(w1, p) THEN w1.mem[p] ELSE oc.fill, w1.data[x], n)

\* Replaces the content of x with a copy of the n bytes at p.  Assigning an
\* object to itself changes nothing.
assign(w, x, self, p, n, bExact, oc) ==
    IF self THEN w
    ELSE assign_copy(resize(w, x, n, bExact, oc), x, p, n, oc)

\* ------------------------------------------------------------- construction
\* An object before construction and after destruction holds nothing.
Blank(w, x) == [w EXCEPT !.data[x] = NULL, !.size[x] = 0, !.cap[x] = 0]

\* memblock (void): allocates 0 bytes for the internal block.
ctor_void(w, x) == [memlink_link(w, x, NULL, 0) EXCEPT !.cap[x] = 0]

\* memblock (size_t n): an owned block of n bytes.
ctor_size(w, x, n, oc) == resize(ctor_void(w, x), x, n, TRUE, oc)

\* memblock (void* p, size_t n): links to p, n; the data will not be freed.
ctor_ptr_Owning(w, x, p, n) == [memlink_link(w, x, p, n) EXCEPT !.cap[x] = n]
ctor_ptr(w, x, p, n) == [memlink_link(w, x, p, n) EXCEPT !.cap[x] = 0]

\* memblock (const void* p, size_t n): links to p, n; the data will not be
\* freed.
ctor_cptr(w, x, p, n) == [memlink_link(w, x, p, n) EXCEPT !.cap[x] = 0]

\* memblock (const cmemlink& b): links to what b is linked to.
ctor_cmemlink(w, x, p, n) == [memlink_link(w, x, p, n) EXCEPT !.cap[x] = 0]

\* memblock (const memlink& b): links to what b is linked to.
ctor_memlink_Owning(w, x, p, n) == [memlink_link(w, x, p, n) EXCEPT !.cap[x] = n]
ctor_memlink(w, x, p, n) == [memlink_link(w, x, p, n) EXCEPT !.cap[x] = 0]

\* memblock (const memblock& b): a fresh block holding a copy of b's bytes.
ctor_memblock(w, x, b, oc) ==
    assign(ctor_void(w, x), x, FALSE, w.data[b], w.size[b], TRUE, oc)

\* ~memblock: frees internal data, if appropriate.
dtor(w, x) == IF ~is_linked(w, x) THEN deallocate(w, x) ELSE w

\* ------------------------------------------------------------------ actions
\* Every action takes the object x it is called on and N, the largest length
\* the caller asks for.

\* The regions a caller may hand over: the foreign array, whole or in part,
\* or nothing.
CallerViews(N) ==
    {[p |-> NULL, n |-> 0]} \cup {[p |-> f, n |-> k] : f \in Foreign, k \in 0 .. N}

\* The caller keeps linked memory alive while the object uses it: x may be
\* read and written when its block was not released behind its back.
Usable(x) ==
    alive[x] /\ (m_Data[x] \in Heap => bstate[m_Data[x]] = "live")

\* The views a memlink argument may be: a caller's view, or another object
\* passed as its memlink base.
LinkViews(x, N) ==
    CallerViews(N)
    \cup {[p |-> m_Data[y], n |-> m_Size[y]] : y \in {z \in Bufs \ {x} : Usable(z)}}

\* The allocator outcomes that make a difference to a call on x that needs n
\* bytes: none when the capacity suffices, no move when there is no block of
\* x's own to move, one failure.
OutcomesFor(x, n) ==
    IF n <= m_AllocatedSize[x] THEN {NoAlloc}
    ELSE {oc \in Outcomes :
            /\ (~oc.ok => ~oc.move /\ oc.fill = Zeroes)
            /\ (oc.move => m_AllocatedSize[x] > 0)
            /\ (m_AllocatedSize[x] > 0 /\ ~oc.move => oc.fill = Zeroes)}

\* The values of bExact that make a difference to such a call.
ExactFor(x, n) == IF n <= m_AllocatedSize[x] THEN {TRUE} ELSE BOOLEAN

\* What x is before a call: not constructed, unlinked, linked or owned.
Kind(x) ==
    IF ~alive[x] THEN "none"
    ELSE IF m_AllocatedSize[x] > 0 THEN "owned"
    ELSE IF m_Data[x] # NULL THEN "linked"
    ELSE "unlinked"

\* The record of a call: its name, the object, what the object was before
\* it, and whether it raised an allocation error.
Call(name, x, w) == [name |-> name, x |-> x, was |-> Kind(x), err |-> w.err]

\* A live block no object points to is lost for good: nothing reads it or
\* frees it any more, so the model forgets it.
Leaked(w, r) ==
    /\ w.bstate[r] = "live"
    /\ \A x \in Bufs : w.data[x] # r

Commit(w) ==
    /\ m_Data' = w.data
    /\ m_Size' = w.size
    /\ m_AllocatedSize' = w.cap
    /\ mem' = [r \in Regions |->
                 IF r \in Heap /\ Leaked(w, r) THEN Zeroes ELSE w.mem[r]]
    /\ bsize' = [r \in Heap |-> IF Leaked(w, r) THEN 0 ELSE w.bsize[r]]
    /\ bstate' = [r \in Heap |-> IF Leaked(w, r) THEN "free" ELSE w.bstate[r]]
    /\ faults' = w.faults

\* A member call on a constructed object: w is the world it leaves.
Apply(w, name, x) ==
    /\ Commit(w)
    /\ op' = Call(name, x, w)
    /\ UNCHANGED alive

\* A constructor call: when it throws, no object comes to be.
Construct(w, name, x) ==
    /\ Commit(IF w.err THEN Blank(w, x) ELSE w)
    /\ op' = Call(name, x, w)
    /\ alive' = [alive EXCEPT ![x] = ~w.err]

\* A destructor call: the object is gone.
Destruct(w, name, x) ==
    /\ Commit(Blank(w, x))
    /\ op' = Call(name, x, w)
    /\ alive' = [alive EXCEPT ![x] = FALSE]

CtorVoid(x) ==
    /\ ~alive[x]
    /\ Construct(ctor_void(W, x), "ctor_void", x)

CtorSize(x, N) ==
    /\ ~alive[x]
    /\ \E n \in 0 .. N : \E oc \in OutcomesFor(x, n) :
         Construct(ctor_size(W, x, n, oc), "ctor_size", x)

CtorPtr(x, N) ==
    /\ ~alive[x]
    /\ \E v \in CallerViews(N) :
         Construct(ctor_ptr(W, x, v.p, v.n), "ctor_ptr", x)

CtorCptr(x, N) ==
    /\ ~alive[x]
    /\ \E v \in CallerViews(N) :
         Construct(ctor_cptr(W, x, v.p, v.n), "ctor_cptr", x)

CtorCmemlink(x, N) ==
    /\ ~alive[x]
    /\ \E v \in LinkViews(x, N) :
         Construct(ctor_cmemlink(W, x, v.p, v.n), "ctor_cmemlink", x)

CtorMemlink(x, N) ==
    /\ ~alive[x]
    /\ \E v \in LinkViews(x, N) :
         Construct(ctor_memlink(W, x, v.p, v.n), "ctor_memlink", x)

CtorMemblock(x) ==
    /\ ~alive[x]
    /\ \E b \in Bufs \ {x} : \E oc \in OutcomesFor(x, m_Size[b]) :
         /\ Usable(b)
         /\ Construct(ctor_memblock(W, x, b, oc), "ctor_memblock", x)

Destroy(x) ==
    /\ alive[x]
    /\ Destruct(dtor(W, x), "dtor", x)

Reserve(x, N) ==
    /\ Usable(x)
    /\ \E n \in 0 .. N : \E e \in ExactFor(x, n), oc \in OutcomesFor(x, n) :
         Apply(reserve(W, x, n, e, oc), "reserve", x)

Resize(x, N) ==
    /\ Usable(x)
    /\ \E n \in 0 .. N : \E e \in ExactFor(x, n), oc \in OutcomesFor(x, n) :
         Apply(resize(W, x, n, e, oc), "resize", x)

Clear(x) ==
    /\ Usable(x)
    /\ Apply(clear(W, x), "clear", x)

Insert(x, N) ==
    /\ Usable(x)
    /\ \E p \in 0 .. m_Size[x], k \in 0 .. (N - m_Size[x]) :
         \E e \in ExactFor(x, m_Size[x] + k), oc \in OutcomesFor(x, m_Size[x] + k) :
            Apply(insert(W, x, p, k, e, oc), "insert", x)

Erase(x) ==
    /\ Usable(x)
    /\ \E p \in 0 .. m_Size[x] : \E k \in 0 .. (m_Size[x] - p) :
         Apply(erase(W, x, p, k), "erase", x)

\* operator= (const memblock& b), b being any object, x itself included.
Assign(x) ==
    /\ Usable(x)
    /\ \E b \in Bufs :
         \E e \in (IF b = x THEN {TRUE} ELSE ExactFor(x, m_Size[b])),
            oc \in (IF b = x THEN {NoAlloc} ELSE OutcomesFor(x, m_Size[b])) :
         /\ Usable(b)
         /\ Apply(assign(W, x, b = x, m_Data[b], m_Size[b], e, oc), "assign", x)

\* assign (const cmemlink& l), l being a caller's view.
AssignView(x, N) ==
    /\ Usable(x)
    /\ \E v \in CallerViews(N) :
         \E e \in ExactFor(x, v.n), oc \in OutcomesFor(x, v.n) :
            Apply(assign(W, x, FALSE, v.p, v.n, e, oc), "assign_view", x)

Swap(x) ==
    /\ alive[x]
    /\ \E l \in Bufs \ {x} :
         /\ alive[l]
         /\ Apply(swap(W, x, l), "swap", x)

Deallocate(x) ==
    /\ alive[x]
    /\ Apply(deallocate(W, x), "deallocate", x)

Manage(x, N) ==
    /\ alive[x]
    /\ \E v \in CallerViews(N) :
         Apply(manage(W, x, v.p, v.n), "manage", x)

ManageMemlink(x) ==
    /\ alive[x]
    /\ \E l \in Bufs \ {x} :
         /\ Usable(l)
         /\ Apply(manage_memlink(W, x, l), "manage_memlink", x)

Unlink(x) ==
    /\ alive[x]
    /\ Apply(unlink(W, x), "unlink", x)

\* ------------------------------------------------------------ specification
Init ==
    /\ m_Data = [x \in Bufs |-> NULL]
    /\ m_Size = [x \in Bufs |-> 0]
    /\ m_AllocatedSize = [x \in Bufs |-> 0]
    /\ alive = [x \in Bufs |-> FALSE]
    /\ mem = [r \in Regions |-> IF r \in Foreign THEN [i \in Cells |-> i] ELSE Zeroes]
    /\ bsize = [r \in Heap |-> 0]
    /\ bstate = [r \in Heap |-> "free"]
    /\ faults = {}
    /\ op = [name |-> "init", x |-> "a", was |-> "none", err |-> FALSE]

\* The calls on one object.
Single(x, N) ==
    \/ CtorVoid(x)
    \/ CtorSize(x, N)
    \/ CtorPtr(x, N)
    \/ CtorCptr(x, N)
    \/ CtorCmemlink(x, N)
    \/ CtorMemlink(x, N)
    \/ Destroy(x)
    \/ Reserve(x, N)
    \/ Resize(x, N)
    \/ Clear(x)
    \/ Insert(x, N)
    \/ Erase(x)
    \/ Assign(x)
    \/ AssignView(x, N)
    \/ Deallocate(x)
    \/ Manage(x, N)
    \/ Unlink(x)

\* The calls of one object on another.
Mutual(x) ==
    \/ CtorMemblock(x)
    \/ Swap(x)
    \/ ManageMemlink(x)

Next == Single("a", MaxLen)

Spec == Init /\ [][Next]_vars

NextPair == \E x \in Bufs : Single(x, MaxPair) \/ Mutual(x)

SpecPair == Init /\ [][NextPair]_vars

\* Two objects, one of them a view of the other's memory, with longer
\* contents: linking, reserve, assignment and destruction only.
NextShare ==
    \E x \in Bufs :
        \/ CtorPtr(x, MaxShare)
        \/ CtorMemlink(x, MaxShare)
        \/ Reserve(x, MaxShare)
        \/ Assign(x)
        \/ Destroy(x)

SpecShare == Init /\ [][NextShare]_vars

\* ------------------------------------------------------------------- claims
\* The byte at offset i - 1 of x in the world w.
At(w, x, i) == w.mem[w.data[x]][i]

Unlinked(x) == m_Data[x] = NULL
Linked(x) == is_linked(W, x)
Owned(x) == capacity(W, x) > 0

\* C1: in every reachable state, an object with allocated capacity > 0 has a
\* length no larger than that capacity (I2).
C1_LengthWithinCapacity ==
    \A x \in Bufs : m_AllocatedSize[x] > 0 => m_Size[x] <= m_AllocatedSize[x]

C3_ManagedIsFreed ==
    (op.name = "manage" /\ m_Data[op.x] # NULL) =>
        m_Data[op.x] \in dtor(W, op.x).freed

C5_ThreeStates ==
    \A x \in Bufs : alive[x] =>
        /\ m_Data[x] = NULL => m_Size[x] = 0 /\ m_AllocatedSize[x] = 0
        /\ Unlinked(x) \/ Linked(x) \/ Owned(x)
        /\ ~(Unlinked(x) /\ Linked(x))
        /\ ~(Unlinked(x) /\ Owned(x))
        /\ ~(Linked(x) /\ Owned(x))

\* An owned object was unlinked and is now unlinked.
C5_Witness ==
    /\ op.name = "unlink"
    /\ op.was = "owned"
    /\ alive[op.x]
    /\ Unlinked(op.x)

\* C6, as claimed: an object constructed from another object or from a view
\* of length > 0 owns a fresh block whose bytes equal the source's.
C6_CopyAlwaysOwns ==
    (op.name \in {"ctor_cmemlink", "ctor_memlink", "ctor_memblock"}
     /\ ~op.err /\ m_Size[op.x] > 0) =>
        /\ m_AllocatedSize[op.x] > 0
        /\ m_Data[op.x] \in Heap
        /\ \A y \in Bufs \ {op.x} : m_Data[y] # m_Data[op.x]

\* C6, amended: an object constructed from another memblock of length > 0
\* owns a fresh block, not the source's, whose bytes equal the source's, and
\* the source keeps its fields; an object constructed from a cmemlink or
\* memlink view is linked to the view's memory: same pointer, same length,
\* capacity 0, nothing allocated and no byte changed.
C6_CopyOwnsViewLinks ==
    \A x \in Bufs : ~alive[x] =>
        /\ \A v \in LinkViews(x, MaxPair) :
             /\ ctor_cmemlink(W, x, v.p, v.n).data[x] = v.p
             /\ ctor_cmemlink(W, x, v.p, v.n).size[x] = v.n
             /\ ctor_cmemlink(W, x, v.p, v.n).cap[x] = 0
             /\ ctor_cmemlink(W, x, v.p, v.n).allocd = {}
             /\ ctor_cmemlink(W, x, v.p, v.n).mem = mem
             /\ ctor_memlink(W, x, v.p, v.n).data[x] = v.p
             /\ ctor_memlink(W, x, v.p, v.n).size[x] = v.n
             /\ ctor_memlink(W, x, v.p, v.n).cap[x] = 0
             /\ ctor_memlink(W, x, v.p, v.n).allocd = {}
             /\ ctor_memlink(W, x, v.p, v.n).mem = mem
        /\ \A b \in Bufs \ {x}, oc \in Outcomes :
             LET w == ctor_memblock(W, x, b, oc)
             IN (Usable(b) /\ m_Size[b] > 0 /\ ~w.err) =>
                  /\ w.cap[x] >= m_Size[b]
                  /\ w.size[x] = m_Size[b]
                  /\ w.data[x] \in w.allocd
                  /\ w.data[x] # m_Data[b]
                  /\ \A i \in 1 .. m_Size[b] : At(w, x, i) = At(W, b, i)
                  /\ w.data[b] = m_Data[b]
                  /\ w.size[b] = m_Size[b]
                  /\ w.cap[b] = m_AllocatedSize[b]

\* An object was constructed from a view of the other object's block: it is
\* linked to the block the other one owns.
C6_Witness ==
    /\ op.name = "ctor_memlink"
    /\ \E y \in Bufs \ {op.x} :
         /\ alive[y]
         /\ Owned(y)
         /\ m_Data[op.x] = m_Data[y]
    /\ m_Size[op.x] > 0
    /\ Linked(op.x)

\* C7, as claimed: no reserve or resize call decreases the capacity, and a
\* resize to less than the length leaves the capacity unchanged.
C7_ShrinkKeepsCapacity ==
    \A x \in Bufs : Usable(x) =>
        \A n \in 0 .. MaxLen, e \in BOOLEAN, oc \in Outcomes :
            /\ reserve(W, x, n, e, oc).cap[x] >= m_AllocatedSize[x]
            /\ resize(W, x, n, e, oc).cap[x] >= m_AllocatedSize[x]
            /\ n < m_Size[x] => resize(W, x, n, e, oc).cap[x] = m_AllocatedSize[x]

\* C7, amended: no reserve or resize call decreases the capacity, and a
\* resize to a size no larger than the capacity leaves the capacity unchanged
\* (a resize of a linked object to a smaller size > 0 raises it from 0).
C7_CapacityMonotonic ==
    \A x \in Bufs : Usable(x) =>
        \A n \in 0 .. MaxLen, e \in BOOLEAN, oc \in Outcomes :
            /\ reserve(W, x, n, e, oc).cap[x] >= m_AllocatedSize[x]
            /\ resize(W, x, n, e, oc).cap[x] >= m_AllocatedSize[x]
            /\ n <= m_AllocatedSize[x] =>
                 resize(W, x, n, e, oc).cap[x] = m_AllocatedSize[x]

\* An owned object was resized and its length is below its capacity.
C7_Witness ==
    /\ op.name = "resize"
    /\ op.was = "owned"
    /\ ~op.err
    /\ m_Size[op.x] = 1
    /\ m_AllocatedSize[op.x] = MaxLen

\* C8: after a reserve or resize that grows the capacity, the first
\* min(old length, new length) bytes are the bytes held before.
C8_ContentPreserved ==
    \A x \in Bufs : Usable(x) =>
        \A n \in 0 .. MaxLen, e \in BOOLEAN, oc \in Outcomes :
            /\ LET w == reserve(W, x, n, e, oc)
               IN (~w.err /\ w.cap[x] > m_AllocatedSize[x]) =>
                    \A i \in 1 .. Min(m_Size[x], w.size[x]) : At(w, x, i) = At(W, x, i)
            /\ LET w == resize(W, x, n, e, oc)
               IN (~w.err /\ w.cap[x] > m_AllocatedSize[x]) =>
                    \A i \in 1 .. Min(m_Size[x], w.size[x]) : At(w, x, i) = At(W, x, i)

\* C9: reserve(h), h > 0, on an object linked to the foreign region makes it
\* the owner of a fresh block of at least h bytes, and leaves the foreign
\* region's bytes as they were, and unfreed.
C9_ReserveOnLinked ==
    \A x \in Bufs : (Usable(x) /\ Linked(x) /\ m_Data[x] \in Foreign) =>
        \A h \in 1 .. MaxLen, e \in BOOLEAN, oc \in Outcomes :
            LET w == reserve(W, x, h, e, oc)
            IN ~w.err =>
                 /\ w.cap[x] >= h
                 /\ w.data[x] \in Heap
                 /\ w.data[x] \in w.allocd
                 /\ \A f \in Foreign : w.mem[f] = mem[f]
                 /\ w.freed \cap Foreign = {}
                 /\ w.faults = faults

\* A linked object called reserve and owns a heap block now.
C9_Witness ==
    /\ op.name = "reserve"
    /\ op.was = "linked"
    /\ ~op.err
    /\ Owned(op.x)
    /\ m_Data[op.x] \in Heap

\* C10: insert(p, k) on a length L yields the length L + k, leaves the bytes
\* [0, p) as they were, makes the bytes [p + k, L + k) the old bytes [p, L),
\* and returns the position p.
C10_InsertShifts ==
    \A x \in Bufs : Usable(x) =>
        \A p \in 0 .. m_Size[x], k \in 0 .. (MaxLen - m_Size[x]),
           e \in BOOLEAN, oc \in Outcomes :
            LET w == insert(W, x, p, k, e, oc)
            IN ~w.err =>
                 /\ w.size[x] = m_Size[x] + k
                 /\ \A i \in 1 .. p : At(w, x, i) = At(W, x, i)
                 /\ \A i \in (p + k + 1) .. (m_Size[x] + k) : At(w, x, i) = At(W, x, i - k)
                 /\ w.ret = [ptr |-> w.data[x], off |-> p]

\* C11: erase(p, k) on an owned object of length L, p + k <= L, yields the
\* length L - k, leaves the bytes [0, p) as they were, makes the bytes
\* [p, L - k) the old bytes [p + k, L), leaves the capacity unchanged and
\* returns the position p.
C11_EraseShifts ==
    \A x \in Bufs : (Usable(x) /\ Owned(x)) =>
        \A p \in 0 .. m_Size[x] : \A k \in 0 .. (m_Size[x] - p) :
            LET w == erase(W, x, p, k)
            IN /\ w.size[x] = m_Size[x] - k
               /\ \A i \in 1 .. p : At(w, x, i) = At(W, x, i)
               /\ \A i \in (p + 1) .. (m_Size[x] - k) : At(w, x, i) = At(W, x, i + k)
               /\ w.cap[x] = m_AllocatedSize[x]
               /\ w.data[x] = m_Data[x]
               /\ w.ret = [ptr |-> m_Data[x], off |-> p]
               /\ w.freed = {} /\ w.allocd = {}

\* An owned object erased its first bytes: its only byte left is the last
\* byte of the caller's array, which only a move to the front puts there.
C11_Witness ==
    /\ op.name = "erase"
    /\ op.was = "owned"
    /\ Owned(op.x)
    /\ m_Size[op.x] = 1
    /\ m_AllocatedSize[op.x] >= MaxLen
    /\ At(W, op.x, 1) = MaxLen

\* C12: insert(p, k) followed by erase(p, k) restores the length and every
\* byte of the content.
C12_InsertEraseInverse ==
    \A x \in Bufs : Usable(x) =>
        \A p \in 0 .. m_Size[x], k \in 0 .. (MaxLen - m_Size[x]),
           e \in BOOLEAN, oc \in Outcomes :
            ~insert(W, x, p, k, e, oc).err =>
                /\ erase(insert(W, x, p, k, e, oc), x, p, k).size[x] = m_Size[x]
                /\ \A i \in 1 .. m_Size[x] :
                     At(erase(insert(W, x, p, k, e, oc), x, p, k), x, i) = At(W, x, i)

\* C13: a.swap(b) exchanges the data, length and capacity of a and b,
\* allocates and frees nothing and changes no byte, and a second a.swap(b)
\* gives both objects their original fields back.
C13_SwapTwice ==
    \A x \in Bufs : \A l \in Bufs \ {x} : (alive[x] /\ alive[l]) =>
        /\ swap(W, x, l).data[x] = m_Data[l]
        /\ swap(W, x, l).size[x] = m_Size[l]
        /\ swap(W, x, l).cap[x] = m_AllocatedSize[l]
        /\ swap(W, x, l).data[l] = m_Data[x]
        /\ swap(W, x, l).size[l] = m_Size[x]
        /\ swap(W, x, l).cap[l] = m_AllocatedSize[x]
        /\ swap(W, x, l).freed = {}
        /\ swap(W, x, l).allocd = {}
        /\ swap(W, x, l).mem = mem
        /\ swap(W, x, l).bstate = bstate
        /\ swap(W, x, l).faults = faults
        /\ swap(swap(W, x, l), x, l) = W

\* An owned object and a linked one were swapped: the one that was owned is
\* linked now, and the other one owns the block.
C13_Witness ==
    /\ op.name = "swap"
    /\ op.was = "owned"
    /\ Linked(op.x)
    /\ \E l \in Bufs \ {op.x} : alive[l] /\ Owned(l) /\ m_Size[l] > 0

\* C14: deallocate() frees the block of an owned object, once, and nothing
\* of a linked or unlinked one, and leaves data = NULL, length = 0 and
\* capacity = 0; a second deallocate() frees nothing and leaves the same.
C14_DeallocateIdempotent ==
    \A x \in Bufs : alive[x] =>
        /\ deallocate(W, x).freed = (IF Owned(x) THEN {m_Data[x]} ELSE {})
        /\ deallocate(W, x).faults = faults
        /\ deallocate(W, x).allocd = {}
        /\ deallocate(W, x).data[x] = NULL
        /\ deallocate(W, x).size[x] = 0
        /\ deallocate(W, x).cap[x] = 0
        /\ Owned(x) => deallocate(W, x).bstate[m_Data[x]] = "free"
        /\ deallocate(deallocate(W, x), x) = deallocate(W, x)

\* An owned object was deallocated: it is unlinked, no block is allocated
\* any more and no free went wrong.
C14_Witness ==
    /\ op.name = "deallocate"
    /\ op.was = "owned"
    /\ Unlinked(op.x)
    /\ \A r \in Heap : bstate[r] = "free"
    /\ faults = {}

\* C15: a.assign(b) leaves a with the length of b and with the bytes of b,
\* leaves b as it was, and changes nothing at all when a and b are the same
\* object.
C15_AssignCopies ==
    \A x \in Bufs, b \in Bufs : (Usable(x) /\ Usable(b)) =>
        \A e \in BOOLEAN, oc \in Outcomes :
            LET w == assign(W, x, b = x, m_Data[b], m_Size[b], e, oc)
            IN ~w.err =>
                 /\ w.size[x] = m_Size[b]
                 /\ \A i \in 1 .. m_Size[b] : At(w, x, i) = At(W, b, i)
                 /\ w.data[b] = m_Data[b] \/ b = x
                 /\ w.size[b] = m_Size[b]
                 /\ w.cap[b] = m_AllocatedSize[b] \/ b = x
                 /\ \A i \in 1 .. m_Size[b] : At(w, b, i) = At(W, b, i)
                 /\ b = x => w = W

\* C16: when the allocator fails during reserve, resize or insert, the call
\* reports the error, the object keeps its data, length, capacity and bytes,
\* nothing is freed or allocated and no byte has moved.
C16_FailureKeepsState ==
    \A x \in Bufs : Usable(x) =>
        \A n \in 0 .. MaxLen, e \in BOOLEAN, oc \in Outcomes :
            /\ (~oc.ok /\ n > m_AllocatedSize[x]) =>
                 /\ reserve(W, x, n, e, oc).err
                 /\ resize(W, x, n, e, oc).err
            /\ reserve(W, x, n, e, oc).err =>
                 reserve(W, x, n, e, oc) = [W EXCEPT !.err = TRUE]
            /\ resize(W, x, n, e, oc).err =>
                 resize(W, x, n, e, oc) = [W EXCEPT !.err = TRUE]
            /\ \A p \in 0 .. m_Size[x] :
                 /\ (~oc.ok /\ m_Size[x] + n > m_AllocatedSize[x]) =>
                      insert(W, x, p, n, e, oc).err
                 /\ insert(W, x, p, n, e, oc).err =>
                      insert(W, x, p, n, e, oc) = [W EXCEPT !.err = TRUE]

\* An insert into an owned object with content failed: the object still owns
\* its block and has its length, and no free went wrong.
C16_Witness ==
    /\ op.name = "insert"
    /\ op.err
    /\ op.was = "owned"
    /\ Owned(op.x)
    /\ m_Size[op.x] > 0
    /\ bstate[m_Data[op.x]] = "live"
    /\ faults = {}

\* C17: reserve(h, exact) with h > capacity sets the capacity to h when exact
\* and to the smallest multiple of 64 that is >= h otherwise; resize(10,
\* exact) on an empty object gives length 10, capacity 10 and an owned block.
C17_ExactOrPaged ==
    \A x \in Bufs : Usable(x) =>
        \A h \in (1 .. MaxLen) \cup {10, 63, 64, 65, 128, 129}, oc \in Outcomes :
            /\ (h > m_AllocatedSize[x] /\ ~reserve(W, x, h, TRUE, oc).err) =>
                 reserve(W, x, h, TRUE, oc).cap[x] = h
            /\ (h > m_AllocatedSize[x] /\ ~reserve(W, x, h, FALSE, oc).err) =>
                 /\ reserve(W, x, h, FALSE, oc).cap[x] % 64 = 0
                 /\ reserve(W, x, h, FALSE, oc).cap[x] >= h
                 /\ reserve(W, x, h, FALSE, oc).cap[x] - 64 < h
            /\ (m_Size[x] = 0 /\ m_AllocatedSize[x] = 0
                /\ ~resize(W, x, 10, TRUE, oc).err) =>
                 /\ resize(W, x, 10, TRUE, oc).size[x] = 10
                 /\ resize(W, x, 10, TRUE, oc).cap[x] = 10
                 /\ resize(W, x, 10, TRUE, oc).data[x] \in Heap
                 /\ ~is_linked(resize(W, x, 10, TRUE, oc), x)

\* A reserve that was not exact succeeded: the capacity is one page.
C17_Witness ==
    /\ op.name = "reserve"
    /\ ~op.err
    /\ m_AllocatedSize[op.x] = 64
    /\ m_Size[op.x] <= MaxLen

\* C18: reserve never changes the length, and with a hint <= capacity it
\* does nothing: same data, length, capacity and bytes, and no call of the
\* allocator (reserve(0) leaves a linked object linked).
C18_ReserveNoOp ==
    \A x \in Bufs : Usable(x) =>
        \A n \in 0 .. MaxLen, e \in BOOLEAN, oc \in Outcomes :
            /\ reserve(W, x, n, e, oc).size[x] = m_Size[x]
            /\ n <= m_AllocatedSize[x] => reserve(W, x, n, e, oc) = W
            /\ Linked(x) => is_linked(reserve(W, x, 0, e, oc), x)

\* A linked object called reserve and is still linked: the hint was 0.
C18_Witness ==
    /\ op.name = "reserve"
    /\ op.was = "linked"
    /\ ~op.err
    /\ Linked(op.x)
    /\ m_Size[op.x] > 0

C20_UnlinkFreesNothing ==
    \A x \in Bufs : alive[x] =>
        /\ unlink(W, x).data[x] = NULL
        /\ unlink(W, x).size[x] = 0
        /\ unlink(W, x).cap[x] = 0
        /\ unlink(W, x).freed = {}
        /\ unlink(W, x).allocd = {}
        /\ unlink(W, x).mem = mem
        /\ unlink(W, x).bstate = bstate
        /\ unlink(W, x).faults = faults
        /\ deallocate(unlink(W, x), x).freed = {}
        /\ deallocate(unlink(W, x), x).bstate = bstate
        /\ dtor(unlink(W, x), x).freed = {}
        /\ dtor(unlink(W, x), x).bstate = bstate

\* An owned object called unlink: its fields are reset and no free happened
\* or went wrong.
C20_Witness ==
    /\ op.name = "unlink"
    /\ op.was = "owned"
    /\ m_Data[op.x] = NULL
    /\ m_Size[op.x] = 0
    /\ m_AllocatedSize[op.x] = 0
    /\ faults = {}
====
